---- MODULE Spec2Model ----
(***************************************************************************)
(* A model of the IRI facility API core: the adapter registry of           *)
(* IriRouter (create_adapter), the authentication gate (current_user),     *)
(* the task dispatcher (task FacilityAdapter.on_task) and the task         *)
(* lifecycle the task store has to honour.                                 *)
(*                                                                         *)
(* Python values are tagged records: None, Str(s), Model(j) (a pydantic   *)
(* response object whose model_dump_json() is j).  The result of          *)
(* evaluating a Python expression is Ok(v) or Raise(m), m being str(exc). *)
(***************************************************************************)
EXTENDS Integers, Sequences, FiniteSets, TLC

VARIABLES
    environ,    \* os.environ: the adapter configuration of the process
    call,       \* the arguments of one direct call of on_task
    ret,        \* what that call returned (NoRet before the call)
    routers,    \* router name -> the IriRouter object built at import time
    instances,  \* number of adapter objects instantiated so far
    tasks,      \* the task store: sequence of Task records, id = index
    dispatch,   \* per task: the dispatcher's position and its outcome in flight
    seen,       \* per task: the statuses successive polls returned
    reqs,       \* per request: its position in the gate/handler pipeline
    startup,    \* the import of the router modules: how far it got, its error
    stored,     \* the args of the TaskCommand built from `call`, once validated
    replays,    \* what successive dispatches of `call` returned
    sim         \* the demo state generator: its loop index and what it built

vars == <<environ, call, ret, routers, instances, tasks, dispatch, seen, reqs,
          startup, stored, replays, sim>>

-----------------------------------------------------------------------------
(* Python values and outcomes *)

None == [t |-> "None"]
Str(s) == [t |-> "str", v |-> s]
Model(j) == [t |-> "model", json |-> j]

Ok(v) == [ok |-> TRUE, v |-> v]
Raise(m) == [ok |-> FALSE, msg |-> m]

\* Python truthiness, as used by `if r:` and `if not user_id:`
Truthy(v) ==
    CASE v.t = "None" -> FALSE
      [] v.t = "str" -> v.v # ""
      [] OTHER -> TRUE

\* str(AttributeError) for a missing attribute
NoAttribute(v, attr) ==
    LET tn == CASE v.t = "None" -> "NoneType"
                [] v.t = "model" -> "BaseModel"
                [] OTHER -> v.t
    IN "'" \o tn \o "' object has no attribute '" \o attr \o "'"

-----------------------------------------------------------------------------
(* iri_router.py: the adapter registry *)

\* the values of IRI_SHOW_MISSING_ROUTES that show unconfigured routes
ShowValues == {"true", "1", "on", "yes"}

\* the importable classes: the contracts each one subclasses, and whether it
\* leaves an abstract method unimplemented (instantiating an ABC with
\* abstract methods raises TypeError).  DemoAdapter subclasses the status,
\* account and compute contracts and defines no update_job, which the compute
\* contract declares abstract.
Classes ==
    [x \in {"app.demo_adapter.DemoAdapter", "facility.Site", "facility.FsAdapter",
            "facility.Partial", "facility.Other"} |->
        CASE x = "app.demo_adapter.DemoAdapter" ->
                [bases |-> {"status", "account", "compute"}, abstract |-> TRUE]
          [] x = "facility.Site" ->
                [bases |-> {"status", "account", "compute", "filesystem", "task"},
                 abstract |-> FALSE]
          [] x = "facility.FsAdapter" ->
                [bases |-> {"filesystem", "task"}, abstract |-> FALSE]
          [] x = "facility.Partial" ->
                [bases |-> {"status", "account", "compute", "filesystem", "task"},
                 abstract |-> TRUE]
          [] OTHER ->
                [bases |-> {}, abstract |-> FALSE]]

\* self.prefix.replace("/", "").strip(): the prefix is kept as its segments
RECURSIVE router_name(_)
router_name(prefix) ==
    IF prefix = <<>> THEN "" ELSE Head(prefix) \o router_name(Tail(prefix))

\* a freshly constructed APIRouter, before create_adapter has run
NewRouter(prefix) ==
    [t |-> "IriRouter", prefix |-> prefix, include_in_schema |-> TRUE,
     adapter |-> None]

\* create_adapter without the issubclass test, on a class whose instantiation
\* does not check for abstract methods: whatever the variable names is bound
create_adapter_unchecked(self, router_adapter, env, fresh) ==
    IF self.t # "IriRouter"
    THEN Raise(NoAttribute(self, "prefix"))
    ELSE
    LET name == router_name(self.prefix)
        env_var == "IRI_API_ADAPTER_" \o name
        show == IF "IRI_SHOW_MISSING_ROUTES" \in DOMAIN env
                THEN env["IRI_SHOW_MISSING_ROUTES"] ELSE "<unset>"
    IN  IF env_var \notin DOMAIN env /\ show \notin ShowValues
        THEN [ok |-> TRUE, v |-> None,
              self |-> [self EXCEPT !.include_in_schema = FALSE]]
        ELSE
        LET adapter_name == IF env_var \in DOMAIN env THEN env[env_var]
                            ELSE "app.demo_adapter.DemoAdapter"
        IN  IF adapter_name \notin DOMAIN Classes
            THEN Raise("No module named '" \o adapter_name \o "'")
            ELSE [ok |-> TRUE, v |-> None,
                  self |-> [self EXCEPT
                              !.adapter = [t |-> "adapter", cls |-> adapter_name,
                                           id |-> fresh]]]

\* create_adapter hiding every router without a configured adapter, whatever
\* IRI_SHOW_MISSING_ROUTES says
create_adapter_hides_unconfigured(self, router_adapter, env, fresh) ==
    IF self.t # "IriRouter"
    THEN Raise(NoAttribute(self, "prefix"))
    ELSE
    LET name == router_name(self.prefix)
        env_var == "IRI_API_ADAPTER_" \o name
    IN  IF env_var \notin DOMAIN env
        THEN [ok |-> TRUE, v |-> None,
              self |-> [self EXCEPT !.include_in_schema = FALSE]]
        ELSE
        LET adapter_name == env[env_var]
        IN  IF adapter_name \notin DOMAIN Classes
            THEN Raise("No module named '" \o adapter_name \o "'")
            ELSE IF router_adapter \notin Classes[adapter_name].bases
            THEN Raise(adapter_name \o " should implement FacilityAdapter")
            ELSE IF Classes[adapter_name].abstract
            THEN Raise("Can't instantiate abstract class " \o adapter_name)
            ELSE [ok |-> TRUE, v |-> None,
                  self |-> [self EXCEPT
                              !.adapter = [t |-> "adapter", cls |-> adapter_name,
                                           id |-> fresh]]]

\* IriRouter.create_adapter(self, router_adapter).  It returns nothing (None);
\* what it does is in the fields it sets on self.  `fresh` is the identity of
\* the object AdapterClass() would create.
create_adapter(self, router_adapter, env, fresh) ==
    IF self.t # "IriRouter"
    THEN Raise(NoAttribute(self, "prefix"))
    ELSE
    LET name == router_name(self.prefix)
        env_var == "IRI_API_ADAPTER_" \o name
        show == IF "IRI_SHOW_MISSING_ROUTES" \in DOMAIN env
                THEN env["IRI_SHOW_MISSING_ROUTES"] ELSE "<unset>"
    IN  IF env_var \notin DOMAIN env /\ show \notin ShowValues
        THEN [ok |-> TRUE, v |-> None,
              self |-> [self EXCEPT !.include_in_schema = FALSE]]
        ELSE
        LET adapter_name == IF env_var \in DOMAIN env THEN env[env_var]
                            ELSE "app.demo_adapter.DemoAdapter"
        IN  IF adapter_name \notin DOMAIN Classes
            THEN Raise("No module named '" \o adapter_name \o "'")
            ELSE IF router_adapter \notin Classes[adapter_name].bases
            THEN Raise(adapter_name \o " should implement FacilityAdapter")
            ELSE IF Classes[adapter_name].abstract
            THEN Raise("Can't instantiate abstract class " \o adapter_name)
            ELSE [ok |-> TRUE, v |-> None,
                  self |-> [self EXCEPT
                              !.adapter = [t |-> "adapter", cls |-> adapter_name,
                                           id |-> fresh]]]

-----------------------------------------------------------------------------
(* task/models.py *)

TaskStatus == {"pending", "active", "completed", "failed", "canceled"}

\* an instance of the request model of `command` (PutFileChmodRequest for
\* chmod, ...): its fields by field name
Request(command, fields) == [t |-> "request", cls |-> command, fields |-> fields]

Bool(b) == [t |-> "bool", v |-> b]

\* isinstance(v, dict): Python objects carry a tag t, a dict is the mapping
\* from its keys
IsDict(v) == "t" \notin DOMAIN v

\* humps.decamelize of one key: an underscore before each capital, lowered
decamelize_key(k) ==
    CASE k = "sourcePath" -> "source_path"
      [] k = "targetPath" -> "target_path"
      [] k = "linkPath" -> "link_path"
      [] k = "matchPattern" -> "match_pattern"
      [] OTHER -> k

\* humps.decamelize(d): the dict with every key decamelized
decamelize(d) ==
    [k \in {decamelize_key(j) : j \in DOMAIN d} |->
        d[CHOOSE j \in DOMAIN d : decamelize_key(j) = k]]

\* humps.camel.case of one field name, the alias generator of CamelModel
camelize_key(k) ==
    CASE k = "target_path" -> "targetPath"
      [] k = "link_path" -> "linkPath"
      [] k = "match_pattern" -> "matchPattern"
      [] OTHER -> k

\* rm.model_dump(by_alias=True): keyed by the serialization aliases
model_dump_by_alias(rm) ==
    [k \in {camelize_key(f) : f \in DOMAIN rm.fields} |->
        rm.fields[CHOOSE f \in DOMAIN rm.fields : camelize_key(f) = k]]

\* rm.model_dump(by_alias=False): every field, keyed by its field name
model_dump(rm) == rm.fields

\* normalize_args dumping the request model by alias
normalize_args_by_alias(v) ==
    IF ~IsDict(v) THEN v
    ELSE IF "request_model" \notin DOMAIN v THEN v
    ELSE LET rm == v["request_model"]
         IN  IF IsDict(rm)
             THEN [v EXCEPT !["request_model"] = decamelize(rm)]
             ELSE IF rm.t = "request"
             THEN [v EXCEPT !["request_model"] = model_dump_by_alias(rm)]
             ELSE v

\* normalize_args decamelizing the keys of args itself as well
normalize_args_every_key(v) ==
    IF ~IsDict(v) THEN v
    ELSE IF "request_model" \notin DOMAIN v THEN decamelize(v)
    ELSE LET rm == v["request_model"]
             w == decamelize(v)
         IN  IF IsDict(rm)
             THEN [w EXCEPT !["request_model"] = decamelize(rm)]
             ELSE IF rm.t = "request"
             THEN [w EXCEPT !["request_model"] = model_dump(rm)]
             ELSE w

\* TaskCommand.normalize_args(v), the "before" validator of args
normalize_args(v) ==
    IF ~IsDict(v) THEN v
    ELSE IF "request_model" \notin DOMAIN v THEN v
    ELSE LET rm == v["request_model"]
         IN  IF IsDict(rm)
             THEN [v EXCEPT !["request_model"] = decamelize(rm)]
             ELSE IF rm.t = "request"
             THEN [v EXCEPT !["request_model"] = model_dump(rm)]
             ELSE v

\* the caller's mapping once normalize_args(v) has returned: the validator
\* assigns to a copy (v = v.copy()), and model_dump and decamelize build new
\* dicts, so the object passed in is as it was
args_after_normalize(v) == v

-----------------------------------------------------------------------------
(* task/facility_adapter.py: the dispatcher *)

\* the commands whose branch rebuilds a request model from args["request_model"]
RequestModelCommands ==
    {"chmod", "chown", "mkdir", "symlink", "compress", "extract", "mv", "cp"}

\* the commands whose branch calls the operation with **args and dumps the
\* response object to JSON
KwargsCommands ==
    {"file", "stat", "ls", "head", "view", "tail", "checksum", "rm"}

\* the (router, command) pairs on_task has a branch for
InDispatchTable(router, command) ==
    /\ router = "filesystem"
    /\ command \in RequestModelCommands \cup KwargsCommands \cup {"download", "upload"}

\* the parameters of each filesystem operation that have no default, other
\* than self, resource and user (every operation also takes **kwargs)
RequiredParams(command) ==
    CASE command = "ls" ->
            {"path", "show_hidden", "numeric_uid", "recursive", "dereference"}
      [] command \in {"head", "tail"} ->
            {"path", "file_bytes", "lines", "skip_trailing"}
      [] command = "view" -> {"path", "size", "offset"}
      [] command = "stat" -> {"path", "dereference"}
      [] command = "upload" -> {"path", "content"}
      [] command \in {"checksum", "file", "rm", "download"} -> {"path"}
      [] OTHER -> {"request_model"}

\* the fields of each request model that have no default
RequiredFields(command) ==
    {"path"} \cup
    CASE command = "chmod" -> {"mode"}
      [] command = "symlink" -> {"link_path"}
      [] command \in {"compress", "extract", "mv", "cp"} -> {"target_path"}
      [] OTHER -> {}

\* the fields of each request model
Fields(command) ==
    CASE command = "chmod" -> {"path", "mode"}
      [] command = "chown" -> {"path", "owner", "group"}
      [] command = "mkdir" -> {"path", "parent"}
      [] command = "symlink" -> {"path", "link_path"}
      [] command = "compress" ->
            {"path", "target_path", "match_pattern", "dereference", "compression"}
      [] command = "extract" -> {"path", "target_path", "compression"}
      [] command = "cp" -> {"path", "target_path", "dereference"}
      [] command = "mv" -> {"path", "target_path"}
      [] OTHER -> {}

\* the default of each field that has one
Default(f) ==
    CASE f \in {"owner", "group"} -> Str("")
      [] f \in {"parent", "dereference"} -> Bool(FALSE)
      [] f = "compression" -> Str("gzip")
      [] OTHER -> None

\* the validation alias of a field: the AliasChoices of path, else the
\* camelCase spelling the alias generator gives
AliasKeys(f) ==
    IF f = "path" THEN {"sourcePath", "source_path"} ELSE {camelize_key(f)}

\* the keys a field is read from: its validation alias, and its name
\* (populate_by_name)
FieldKeys(f) == AliasKeys(f) \cup {f}

\* model_validate of a model without populate_by_name: aliases only
model_validate_aliases_only(command, v) ==
    IF ~IsDict(v)
    THEN IF v.t = "request" /\ v.cls = command THEN Ok(v)
         ELSE Raise("validation error for " \o command \o " request")
    ELSE IF \A f \in RequiredFields(command) : AliasKeys(f) \cap DOMAIN v # {}
    THEN Ok(Request(command,
              [f \in Fields(command) |->
                  IF AliasKeys(f) \cap DOMAIN v # {}
                  THEN v[CHOOSE k \in AliasKeys(f) \cap DOMAIN v : TRUE]
                  ELSE Default(f)]))
    ELSE Raise("validation error for " \o command \o " request")

\* <Request>.model_validate(v) of line 60 and its siblings: an instance is
\* taken as it is; a dict lacking a required field is a ValidationError, any
\* other dict gives the instance with the fields it names and the defaults
\* of the others
model_validate(command, v) ==
    IF ~IsDict(v)
    THEN IF v.t = "request" /\ v.cls = command THEN Ok(v)
         ELSE Raise("validation error for " \o command \o " request")
    ELSE IF \A f \in RequiredFields(command) : FieldKeys(f) \cap DOMAIN v # {}
    THEN Ok(Request(command,
              [f \in Fields(command) |->
                  IF FieldKeys(f) \cap DOMAIN v # {}
                  THEN v[CHOOSE k \in FieldKeys(f) \cap DOMAIN v : TRUE]
                  ELSE Default(f)]))
    ELSE Raise("validation error for " \o command \o " request")

\* o.model_dump_json()
model_dump_json(o) ==
    IF o.t = "model" THEN Ok(Str(o.json))
    ELSE Raise(NoAttribute(o, "model_dump_json"))

\* `await fs_adapter.<command>(resource, user, ...)`: the attribute lookup on
\* fs_adapter, the binding of the keyword arguments, then the operation
\* itself, whose behaviour `op` is an input (Ok(value) or Raise(message))
invoke(fs_adapter, command, keywords, op) ==
    IF fs_adapter.t # "adapter"
    THEN Raise(NoAttribute(fs_adapter, command))
    ELSE IF keywords \cap {"resource", "user"} # {}
    THEN Raise(command \o "() got multiple values for argument")
    ELSE IF ~(RequiredParams(command) \subseteq keywords)
    THEN Raise(command \o "() missing required positional arguments")
    ELSE op

\* whether the call `fs_adapter.<command>(resource, user, ...)` gets as far
\* as the operation: fs_adapter has it and the arguments bind
Receives(fs_adapter, command, keywords) ==
    /\ fs_adapter.t = "adapter"
    /\ keywords \cap {"resource", "user"} = {}
    /\ RequiredParams(command) \subseteq keywords

\* the body of the try block of on_task (lines 56-119): Ok(r) or Raise(msg).
\* `adapter` is the object the operation was invoked on, None when the
\* dispatch never got that far; `received` is the two positional arguments
\* the operation was called with, None when it was not called.
on_task_try(resource, user, router, command, args, op, env, fresh) ==
    IF router # "filesystem"
    THEN [ok |-> TRUE, v |-> None, adapter |-> None, received |-> None]
    ELSE
    LET made == create_adapter(Str(router), "filesystem", env, fresh)
    IN  IF ~made.ok THEN [ok |-> FALSE, msg |-> made.msg, adapter |-> None,
                              received |-> None]
        ELSE
        LET fs_adapter == made.v
            used == IF fs_adapter.t = "adapter" THEN fs_adapter ELSE None
            called ==
                IF command \in RequestModelCommands
                THEN /\ "request_model" \in DOMAIN args
                     /\ model_validate(command, args["request_model"]).ok
                     /\ Receives(fs_adapter, command, {"request_model"})
                ELSE /\ InDispatchTable(router, command)
                     /\ Receives(fs_adapter, command, DOMAIN args)
            got == IF called THEN [resource |-> resource, user |-> user]
                   ELSE None
            fail(m) == [ok |-> FALSE, msg |-> m, adapter |-> used,
                        received |-> got]
            done(v) == [ok |-> TRUE, v |-> v, adapter |-> used,
                        received |-> got]
            dumped(o) == IF ~o.ok THEN fail(o.msg)
                         ELSE LET j == model_dump_json(o.v)
                              IN IF j.ok THEN done(j.v) ELSE fail(j.msg)
        IN  CASE command \in RequestModelCommands ->
                    IF "request_model" \notin DOMAIN args
                    THEN fail("'request_model'")
                    ELSE LET rm == model_validate(command, args["request_model"])
                         IN IF ~rm.ok THEN fail(rm.msg)
                            ELSE dumped(invoke(fs_adapter, command,
                                               {"request_model"}, op))
              [] command \in KwargsCommands ->
                    dumped(invoke(fs_adapter, command, DOMAIN args, op))
              [] command = "download" ->
                    LET o == invoke(fs_adapter, command, DOMAIN args, op)
                    IN IF o.ok THEN done(o.v) ELSE fail(o.msg)
              [] command = "upload" ->
                    LET o == invoke(fs_adapter, command, DOMAIN args, op)
                    IN IF o.ok THEN done(Str("File uploaded successfully"))
                       ELSE fail(o.msg)
              [] OTHER -> done(None)

\* on_task with the failure of the try block reported as a task still pending
on_task_requeue(resource, user, router, command, args, op, env, fresh) ==
    LET body == on_task_try(resource, user, router, command, args, op, env, fresh)
    IN  IF ~body.ok
        THEN [result |-> Str("Error: " \o body.msg), status |-> "pending",
              adapter |-> body.adapter,
              received |-> body.received]
        ELSE IF Truthy(body.v)
        THEN [result |-> body.v, status |-> "completed", adapter |-> body.adapter,
              received |-> body.received]
        ELSE [result |-> Str("Task was cancelled due to unknown router/command: "
                             \o router \o ":" \o command),
              status |-> "failed", adapter |-> body.adapter,
              received |-> body.received]

\* on_task with the unknown command reported as a task still pending
on_task_unknown_pending(resource, user, router, command, args, op, env, fresh) ==
    LET body == on_task_try(resource, user, router, command, args, op, env, fresh)
    IN  IF ~body.ok
        THEN [result |-> Str("Error: " \o body.msg), status |-> "failed",
              adapter |-> body.adapter,
              received |-> body.received]
        ELSE IF Truthy(body.v)
        THEN [result |-> body.v, status |-> "completed", adapter |-> body.adapter,
              received |-> body.received]
        ELSE [result |-> Str("Task was cancelled due to unknown router/command: "
                             \o router \o ":" \o command),
              status |-> "pending", adapter |-> body.adapter,
              received |-> body.received]

\* on_task naming the object it worked with in its error text
on_task_stamped(resource, user, router, command, args, op, env, fresh) ==
    LET body == on_task_try(resource, user, router, command, args, op, env, fresh)
    IN  IF ~body.ok
        THEN [result |-> Str("Error: " \o body.msg \o " in call "
                             \o ToString(fresh)),
              status |-> "failed", adapter |-> body.adapter,
              received |-> body.received]
        ELSE IF Truthy(body.v)
        THEN [result |-> body.v, status |-> "completed", adapter |-> body.adapter,
              received |-> body.received]
        ELSE [result |-> Str("Task was cancelled due to unknown router/command: "
                             \o router \o ":" \o command),
              status |-> "failed", adapter |-> body.adapter,
              received |-> body.received]

\* FacilityAdapter.on_task: (result, status), never an exception for any
\* Exception raised inside the try block
on_task(resource, user, router, command, args, op, env, fresh) ==
    LET body == on_task_try(resource, user, router, command, args, op, env, fresh)
    IN  IF ~body.ok
        THEN [result |-> Str("Error: " \o body.msg), status |-> "failed",
              adapter |-> body.adapter,
              received |-> body.received]
        ELSE IF Truthy(body.v)
        THEN [result |-> body.v, status |-> "completed", adapter |-> body.adapter,
              received |-> body.received]
        ELSE [result |-> Str("Task was cancelled due to unknown router/command: "
                             \o router \o ":" \o command),
              status |-> "failed", adapter |-> body.adapter,
              received |-> body.received]

-----------------------------------------------------------------------------
(* Inputs *)

NoRet ==
    [result |-> None, status |-> "<not called>", adapter |-> None,
     received |-> None]

\* the empty dict
EmptyDict == [k \in {} |-> None]

\* before main.py has imported a router module
NotStarted == [imported |-> 0, error |-> ""]

\* before a TaskCommand has been built
NotStored ==
    [built |-> FALSE, twice |-> FALSE, rebuilt |-> FALSE,
     given |-> None, args |-> None, again |-> None, model |-> None]

\* DemoAdapter._init_state: self.resources, by id and name
SimResources ==
    { [id |-> "r1", name |-> "compute nodes"], [id |-> "r2", name |-> "hpss"],
      [id |-> "r3", name |-> "cfs"], [id |-> "r4", name |-> "login nodes"],
      [id |-> "r5", name |-> "Iris"], [id |-> "r6", name |-> "sfapi"] }

\* the demo state generator before its loop has run: every resource up, no
\* incident open (0), nothing generated; d counts the loop's clock
NotSimulated ==
    [i |-> 0, d |-> 0,
     statuses |-> [n \in {r.name : r \in SimResources} |-> "up"],
     last_incidents |-> [n \in {r.name : r \in SimResources} |-> 0],
     events |-> <<>>, incidents |-> <<>>]

\* the processes' configurations: nothing set, the filesystem adapter
\* configured, unconfigured routes shown
Environs ==
    { EmptyDict,
      [k \in {"IRI_API_ADAPTER_filesystem"} |-> "facility.FsAdapter"],
      [k \in {"IRI_SHOW_MISSING_ROUTES"} |-> "true"] }

ConfiguredEnv == [k \in {"IRI_API_ADAPTER_filesystem"} |-> "facility.FsAdapter"]

RouterNames == {"filesystem", "compute", "task"}

CommandNames ==
    RequestModelCommands \cup KwargsCommands
        \cup {"download", "upload", "wipe", "submit_job", "update_job",
              "get_job", "get_jobs", "cancel_job"}

\* args mappings: empty, the keywords of ls, a chmod request model
ArgsSet ==
    { EmptyDict,
      [k \in {"path", "show_hidden", "numeric_uid", "recursive", "dereference"}
            |-> IF k = "path" THEN Str("t1") ELSE None],
      [k \in {"path"} |-> Str("t1")],
      [k \in {"request_model"} |->
            [f \in {"path", "mode", "target_path", "link_path"} |-> Str("x")]] }

\* what the adapter operation does when it is called: returns a response
\* object, a string, an empty string or None, or raises
OpOutcomes ==
    { Ok(Model("{\"output\":null}")), Ok(Str("aGVsbG8=")), Ok(Str("")), Ok(None),
      Raise("No such file or directory"), Raise("") }

Resources == {"cfs"}
Users == {"gtorok"}

IdleCall ==
    [resource |-> "cfs", user |-> "gtorok", router |-> "filesystem",
     command |-> "ls", args |-> EmptyDict, op |-> Ok(None)]

-----------------------------------------------------------------------------
(* One direct call of on_task on drawn inputs *)

InitOnTask ==
    /\ environ \in Environs
    /\ call \in [resource : Resources, user : Users, router : RouterNames,
                 command : CommandNames, args : ArgsSet, op : OpOutcomes]
    /\ ret = NoRet
    /\ routers = EmptyDict
    /\ instances = 0
    /\ tasks = <<>>
    /\ dispatch = <<>>
    /\ seen = <<>>
    /\ reqs = <<>>
    /\ startup = NotStarted
    /\ stored = NotStored
    /\ replays = <<>>
    /\ sim = NotSimulated

CallOnTask ==
    /\ ret = NoRet
    /\ ret' = on_task(call.resource, call.user, call.router, call.command,
                      call.args, call.op, environ, instances + 1)
    /\ UNCHANGED <<environ, call, routers, instances, tasks, dispatch, seen, reqs,
                   startup, stored, replays, sim>>

NextOnTask == CallOnTask

SpecOnTask == InitOnTask /\ [][NextOnTask]_vars

-----------------------------------------------------------------------------
(* The same command dispatched again and again *)

MaxReplays == 2

\* on_task is called once more on the same resource, user and command; the
\* backend operation, having no side effects, behaves as before (call.op).
\* Each call gets object identities of its own.
Replay ==
    /\ Len(replays) < MaxReplays
    /\ replays' = Append(replays,
                         on_task(call.resource, call.user, call.router,
                                 call.command, call.args, call.op, environ,
                                 instances + Len(replays) + 1))
    /\ UNCHANGED <<environ, call, ret, routers, instances, tasks, dispatch, seen,
                   reqs, startup, stored, sim>>

NextReplay == Replay

SpecReplay == InitOnTask /\ [][NextReplay]_vars

-----------------------------------------------------------------------------
(* The task store and the dispatcher's worker *)

MaxTasks == 2
MaxPolls == 2

Terminal == {"completed", "failed", "canceled"}

\* a Task model whose status defaults to active
NewTaskActive(user, resource, command) ==
    [status |-> "active", result |-> None, command |-> command,
     user |-> user, resource |-> resource]

\* Task(id=..., command=...): status defaults to pending, result to None
NewTask(user, resource, command) ==
    [status |-> "pending", result |-> None, command |-> command,
     user |-> user, resource |-> resource]

\* the commands the clients of this model submit
SubmitCommands ==
    { [router |-> "filesystem", command |-> "rm",
       args |-> [k \in {"path"} |-> Str("t1")]],
      [router |-> "compute", command |-> "submit_job", args |-> EmptyDict] }

Idle == [pc |-> "queued", outcome |-> NoRet]

\* the routers of the process, as their module-level constructors leave them:
\* IriRouter.__init__ calls self.create_adapter(router_adapter)
BuildRouter(name, env, fresh) ==
    create_adapter(NewRouter(<<name>>), name, env, fresh).self

Init ==
    /\ environ = ConfiguredEnv
    /\ call = IdleCall
    /\ ret = NoRet
    /\ routers = [n \in {"filesystem"} |-> BuildRouter(n, environ, 1)]
    /\ instances = 1
    /\ tasks = <<>>
    /\ dispatch = <<>>
    /\ seen = <<>>
    /\ reqs = <<>>
    /\ startup = NotStarted
    /\ stored = NotStored
    /\ replays = <<>>
    /\ sim = NotSimulated

\* put_task(user, resource, command): the store creates the task
put_task(user, resource, command) ==
    /\ Len(tasks) < MaxTasks
    /\ tasks' = Append(tasks, NewTask(user, resource, command))
    /\ dispatch' = Append(dispatch, Idle)
    /\ seen' = Append(seen, <<>>)
    /\ UNCHANGED <<environ, call, ret, routers, instances, reqs,
                   startup, stored, replays, sim>>

\* the worker takes a pending task off the queue
Activate(id) ==
    /\ tasks[id].status = "pending"
    /\ dispatch[id].pc = "queued"
    /\ tasks' = [tasks EXCEPT ![id].status = "active"]
    /\ dispatch' = [dispatch EXCEPT ![id].pc = "running"]
    /\ UNCHANGED <<environ, call, ret, routers, instances, seen, reqs,
                   startup, stored, replays, sim>>

\* the worker runs on_task; the backend operation behaves as `op`
Run(id, op) ==
    /\ dispatch[id].pc = "running"
    /\ LET t == tasks[id]
           out == on_task(t.resource, t.user, t.command.router,
                          t.command.command, t.command.args, op, environ,
                          instances + 1)
       IN  /\ dispatch' = [dispatch EXCEPT ![id] = [pc |-> "ran", outcome |-> out]]
           /\ instances' = IF out.adapter = None THEN instances ELSE instances + 1
    /\ UNCHANGED <<environ, call, ret, routers, tasks, seen, reqs,
                   startup, stored, replays, sim>>

\* a store that takes every outcome: the last writer wins
AcceptsAny(task) == TRUE

\* whether the store takes a dispatcher outcome for this task
Accepts(task) == task.status \notin Terminal

\* the outcome (result, status) reaches the store
Deliver(id) ==
    /\ dispatch[id].pc = "ran"
    /\ dispatch' = [dispatch EXCEPT ![id].pc = "done"]
    /\ tasks' = IF Accepts(tasks[id])
                THEN [tasks EXCEPT ![id].status = dispatch[id].outcome.status,
                                   ![id].result = dispatch[id].outcome.result]
                ELSE tasks
    /\ UNCHANGED <<environ, call, ret, routers, instances, seen, reqs,
                   startup, stored, replays, sim>>

\* a cancellation that only checks the task is not canceled already
CancellableUnlessCanceled(task) == task.status # "canceled"

\* whether a cancellation request may mark this task canceled
Cancellable(task) == task.status \in {"pending", "active"}

\* an external cancellation request
Cancel(id) ==
    /\ Cancellable(tasks[id])
    /\ tasks' = [tasks EXCEPT ![id].status = "canceled"]
    /\ UNCHANGED <<environ, call, ret, routers, instances, dispatch, seen, reqs,
                   startup, stored, replays, sim>>

\* the number of polls made so far, over all tasks
RECURSIVE Polls(_)
Polls(ss) == IF ss = <<>> THEN 0 ELSE Len(Head(ss)) + Polls(Tail(ss))

\* get_task(user, task_id): a poll reads the task
get_task(id) ==
    /\ Polls(seen) < MaxPolls
    /\ seen' = [seen EXCEPT ![id] = Append(@, tasks[id].status)]
    /\ UNCHANGED <<environ, call, ret, routers, instances, tasks, dispatch, reqs,
                   startup, stored, replays, sim>>

Next ==
    \/ \E u \in Users, r \in Resources, c \in SubmitCommands : put_task(u, r, c)
    \/ \E id \in DOMAIN tasks : Activate(id)
    \/ \E id \in DOMAIN tasks, op \in OpOutcomes : Run(id, op)
    \/ \E id \in DOMAIN tasks : Deliver(id)
    \/ \E id \in DOMAIN tasks : Cancel(id)
    \/ \E id \in DOMAIN tasks : get_task(id)

Spec == Init /\ [][Next]_vars

\* the store and the dispatcher without the polls, which change no task
NextLive ==
    \/ \E u \in Users, r \in Resources, c \in SubmitCommands : put_task(u, r, c)
    \/ \E id \in DOMAIN tasks : Activate(id)
    \/ \E id \in DOMAIN tasks, op \in OpOutcomes : Run(id, op)
    \/ \E id \in DOMAIN tasks : Deliver(id)
    \/ \E id \in DOMAIN tasks : Cancel(id)

\* the dispatcher's worker is scheduled fairly: a task that stays ready to
\* be taken, run (the operation terminates, one way or the other) or
\* delivered eventually is.  Clients owe nothing: no fairness on put_task
\* and Cancel.
DispatcherFairness ==
    \A id \in 1..MaxTasks :
        /\ WF_vars(id \in DOMAIN tasks /\ Activate(id))
        /\ WF_vars(id \in DOMAIN tasks /\ \E op \in OpOutcomes : Run(id, op))
        /\ WF_vars(id \in DOMAIN tasks /\ Deliver(id))

SpecLive == Init /\ [][NextLive]_vars /\ DispatcherFairness

-----------------------------------------------------------------------------
(* The authentication gate and the routes behind it *)

MaxReqs == 2

\* request.state before the gate has written to it
NoState == [k \in {} |-> None]

\* main.py, http_exception_handler: the body of an HTTPException response
ErrorResponse(code, detail) ==
    [status_code |-> code, status |-> "error", message |-> detail]

\* main.py, global_exception_handler: any other exception
InternalError == ErrorResponse(500, "Internal server error")

NoResponse == [status_code |-> 0, status |-> "", message |-> ""]
OkResponse == [status_code |-> 200, status |-> "ok", message |-> ""]

\* get_real_ip trying the socket's address first
get_real_ip_socket_first(request) ==
    LET h == request.headers
        a == IF "HTTP_X_REAL_IP" \in DOMAIN h THEN h["HTTP_X_REAL_IP"] ELSE None
        b == IF "x-real-ip" \in DOMAIN h THEN h["x-real-ip"] ELSE None
    IN  IF Truthy(request.client) THEN Ok(request.client)
        ELSE IF Truthy(a) THEN Ok(a)
        ELSE IF Truthy(b) THEN Ok(b)
        ELSE Raise(NoAttribute(None, "host"))

\* iri_router.get_real_ip(request)
get_real_ip(request) ==
    LET h == request.headers
        a == IF "HTTP_X_REAL_IP" \in DOMAIN h THEN h["HTTP_X_REAL_IP"] ELSE None
        b == IF "x-real-ip" \in DOMAIN h THEN h["x-real-ip"] ELSE None
    IN  IF Truthy(a) THEN Ok(a)
        ELSE IF Truthy(b) THEN Ok(b)
        ELSE IF request.client.t = "None"
        THEN Raise(NoAttribute(None, "host"))
        ELSE Ok(request.client)

\* the try block of a gate: the adapter lookup, the caller address (for the
\* router's gate), then the adapter's get_current_user, whose behaviour for
\* this request is request.resolve
resolve_identity(adapter, request, with_ip) ==
    IF adapter.t # "adapter" THEN Raise(NoAttribute(adapter, "get_current_user"))
    ELSE IF with_ip /\ ~get_real_ip(request).ok THEN Raise(get_real_ip(request).msg)
    ELSE request.resolve

\* what IriRouter.current_user hands to the adapter's get_current_user: the
\* credential and the caller's address, when the call is reached
NotAsked == [called |-> FALSE, args |-> <<>>]

identity_query(self, request, api_key) ==
    IF self.adapter.t = "adapter" /\ get_real_ip(request).ok
    THEN [called |-> TRUE, args |-> <<Str(api_key), get_real_ip(request).v>>]
    ELSE NotAsked

\* the gate testing `user_id is None` instead of `not user_id`
current_user_is_none(self, request, api_key) ==
    LET r == resolve_identity(self.adapter, request, TRUE)
        user_id == IF r.ok THEN r.v ELSE None
    IN  IF user_id = None
        THEN [ok |-> FALSE, response |-> ErrorResponse(403, "Unauthorized access"),
              state |-> request.state]
        ELSE [ok |-> TRUE, response |-> NoResponse,
              state |-> [k \in {"current_user_id", "api_key"} |->
                            IF k = "api_key" THEN Str(api_key) ELSE user_id]]

\* the gate without its try/except: the exception reaches the application's
\* handler for unexpected exceptions
current_user_no_except(self, request, api_key) ==
    LET r == resolve_identity(self.adapter, request, TRUE)
        user_id == IF r.ok THEN r.v ELSE None
    IN  IF ~r.ok
        THEN [ok |-> FALSE, response |-> InternalError, state |-> request.state]
        ELSE IF ~Truthy(user_id)
        THEN [ok |-> FALSE, response |-> ErrorResponse(403, "Unauthorized access"),
              state |-> request.state]
        ELSE [ok |-> TRUE, response |-> NoResponse,
              state |-> [k \in {"current_user_id", "api_key"} |->
                            IF k = "api_key" THEN Str(api_key) ELSE user_id]]

\* IriRouter.current_user(self, request, api_key): the gate either raises
\* HTTPException(403) or writes the identity and the credential to
\* request.state
current_user(self, request, api_key) ==
    LET r == resolve_identity(self.adapter, request, TRUE)
        user_id == IF r.ok THEN r.v ELSE None
    IN  IF ~Truthy(user_id)
        THEN [ok |-> FALSE, response |-> ErrorResponse(403, "Unauthorized access"),
              state |-> request.state]
        ELSE [ok |-> TRUE, response |-> NoResponse,
              state |-> [k \in {"current_user_id", "api_key"} |->
                            IF k = "api_key" THEN Str(api_key) ELSE user_id]]

\* main.py builds the application and never sets app.state.adapter
AppStateAdapter == None

\* auth.current_user(request, api_key): the application-level gate
auth_current_user(request, api_key) ==
    LET r == resolve_identity(request.app, request, FALSE)
        user_id == IF r.ok THEN r.v ELSE None
    IN  IF ~Truthy(user_id)
        THEN [ok |-> FALSE, response |-> ErrorResponse(403, "Unauthorized access"),
              state |-> request.state]
        ELSE [ok |-> TRUE, response |-> NoResponse,
              state |-> [k \in {"current_user_id"} |-> user_id]]

\* the guarded routes of the model: the synchronous and the task-submitting
\* ls of the filesystem routers, and the projects route of the account router
Routes == {"ls", "ls_async", "projects"}

\* what the adapter's get_current_user may do with a credential
Resolutions ==
    { Ok(Str("gtorok")), Ok(None), Ok(Str("")), Raise("Signature has expired") }

ApiKeys == {"Bearer 12345", "Bearer 999"}

Headers == { NoState, [k \in {"x-real-ip"} |-> Str("10.0.0.7")] }

NewRequest(route, api_key, headers, resolve) ==
    [pc |-> "gate", route |-> route, api_key |-> api_key, headers |-> headers,
     client |-> Str("127.0.0.1"), app |-> AppStateAdapter, resolve |-> resolve,
     state |-> NoState, asked |-> NotAsked, response |-> NoResponse, ops |-> 0,
     task_id |-> 0]

\* the command get_ls_async submits
LsCommand ==
    [router |-> "filesystem", command |-> "ls",
     args |-> [k \in {"path", "show_hidden", "numeric_uid", "recursive",
                      "dereference"} |->
                 IF k = "path" THEN Str("t1") ELSE None]]

InitGate ==
    /\ environ \in {ConfiguredEnv, EmptyDict}
    /\ call = IdleCall
    /\ ret = NoRet
    /\ routers = [n \in {"filesystem"} |-> BuildRouter(n, environ, 1)]
    /\ instances = IF routers["filesystem"].adapter = None THEN 0 ELSE 1
    /\ tasks = <<>>
    /\ dispatch = <<>>
    /\ seen = <<>>
    /\ reqs = <<>>
    /\ startup = NotStarted
    /\ stored = NotStored
    /\ replays = <<>>
    /\ sim = NotSimulated

\* a request for a guarded route arrives
Arrive(route, api_key, headers, resolve) ==
    /\ Len(reqs) < MaxReqs
    /\ reqs' = Append(reqs, NewRequest(route, api_key, headers, resolve))
    /\ UNCHANGED <<environ, call, ret, routers, instances, tasks, dispatch, seen,
                   startup, stored, replays, sim>>

\* a gate that keeps what it resolved in one place for all the requests in
\* flight: the requests waiting for their handler see the last writer's
GateShared(i) ==
    /\ reqs[i].pc = "gate"
    /\ LET q == reqs[i]
           g == IF q.route = "projects" THEN auth_current_user(q, q.api_key)
                ELSE current_user(routers["filesystem"], q, q.api_key)
       IN  reqs' = [j \in DOMAIN reqs |->
                      IF j = i
                      THEN [q EXCEPT !.pc = IF g.ok THEN "handler" ELSE "done",
                                     !.response = g.response,
                                     !.state = g.state]
                      ELSE IF g.ok /\ reqs[j].pc = "handler"
                      THEN [reqs[j] EXCEPT !.state = g.state]
                      ELSE reqs[j]]
    /\ UNCHANGED <<environ, call, ret, routers, instances, tasks, dispatch, seen,
                   startup, stored, replays, sim>>

\* the route's dependency runs: Depends(router.current_user) on the
\* filesystem routes, Depends(auth.current_user) on the account routes.  A
\* dependency that raises ends the request with the error response.
Gate(i) ==
    /\ reqs[i].pc = "gate"
    /\ LET q == reqs[i]
           g == IF q.route = "projects" THEN auth_current_user(q, q.api_key)
                ELSE current_user(routers["filesystem"], q, q.api_key)
       IN  reqs' = [reqs EXCEPT ![i].pc = IF g.ok THEN "handler" ELSE "done",
                                ![i].response = g.response,
                                ![i].state = g.state,
                                ![i].asked =
                                    IF q.route = "projects" THEN NotAsked
                                    ELSE identity_query(routers["filesystem"],
                                                        q, q.api_key)]
    /\ UNCHANGED <<environ, call, ret, routers, instances, tasks, dispatch, seen,
                   startup, stored, replays, sim>>

\* the route handler runs: _user_resource looks the user and the resource
\* up (404 when either is missing); then ls calls the adapter and ls_async
\* submits a task
Handler(i, user_found, resource_found) ==
    /\ reqs[i].pc = "handler"
    /\ LET q == reqs[i]
           looked == IF q.route = "projects" THEN 1
                     ELSE IF user_found THEN 2 ELSE 1
           found == IF q.route = "projects" THEN user_found
                    ELSE user_found /\ resource_found
           detail == IF ~user_found THEN "User not found" ELSE "Resource not found"
           submits == found /\ q.route = "ls_async"
       IN  /\ ~submits \/ Len(tasks) < MaxTasks
           /\ reqs' = [reqs EXCEPT
                 ![i].pc = "done",
                 ![i].ops = looked + (IF found /\ q.route # "ls_async" THEN 1 ELSE 0),
                 ![i].response = IF found THEN OkResponse
                                 ELSE ErrorResponse(404, detail),
                 ![i].task_id = IF submits THEN Len(tasks) + 1 ELSE 0]
           /\ tasks' = IF submits
                       THEN Append(tasks, NewTask(q.state["current_user_id"].v,
                                                  "cfs", LsCommand))
                       ELSE tasks
           /\ dispatch' = IF submits THEN Append(dispatch, Idle) ELSE dispatch
           /\ seen' = IF submits THEN Append(seen, <<>>) ELSE seen
    /\ UNCHANGED <<environ, call, ret, routers, instances,
                   startup, stored, replays, sim>>

NextGate ==
    \/ \E route \in Routes, k \in ApiKeys, h \in Headers, r \in Resolutions :
            Arrive(route, k, h, r)
    \/ \E i \in DOMAIN reqs : Gate(i)
    \/ \E i \in DOMAIN reqs, uf \in BOOLEAN, rf \in BOOLEAN : Handler(i, uf, rf)

SpecGate == InitGate /\ [][NextGate]_vars

\* the headers a proxy may put on a request: each of the two address headers
\* absent, empty or set
AddressHeaders ==
    UNION { { [k \in ks |-> IF k = "HTTP_X_REAL_IP" THEN a ELSE b] :
                a \in {Str(""), Str("10.0.0.1")},
                b \in {Str(""), Str("10.0.0.7")} } :
            ks \in SUBSET {"HTTP_X_REAL_IP", "x-real-ip"} }

\* request.client: the socket's peer, or None when the server has none
Clients == {Str("127.0.0.1"), None}

\* request.app.state.adapter: unset, as main.py leaves it, or the adapter
\* the account routes call
AppAdapters ==
    {AppStateAdapter, [t |-> "adapter", cls |-> "facility.Site", id |-> 0]}

\* one request at a gate
GateRequests ==
    { [NewRequest(route, k, h, r) EXCEPT !.client = c, !.app = a] :
        route \in {"ls", "projects"}, k \in ApiKeys, h \in AddressHeaders,
        r \in Resolutions, c \in Clients, a \in AppAdapters }

InitAuth ==
    /\ environ \in {ConfiguredEnv, EmptyDict}
    /\ call = IdleCall
    /\ ret = NoRet
    /\ routers = [n \in {"filesystem"} |-> BuildRouter(n, environ, 1)]
    /\ instances = IF routers["filesystem"].adapter = None THEN 0 ELSE 1
    /\ tasks = <<>>
    /\ dispatch = <<>>
    /\ seen = <<>>
    /\ reqs \in { <<q>> : q \in GateRequests }
    /\ startup = NotStarted
    /\ stored = NotStored
    /\ replays = <<>>
    /\ sim = NotSimulated

NextAuth == \E i \in DOMAIN reqs : Gate(i)

SpecAuth == InitAuth /\ [][NextAuth]_vars

-----------------------------------------------------------------------------
(* The demo state generator *)

MaxSteps == 4

\* the loop's body opening an incident on every draw above 0.9, whatever
\* the resource's status
init_state_step_always_opens(s, r, flip) ==
    LET status == s.statuses[r.name]
        eid == Len(s.events) + 1
        inc == s.last_incidents[r.name]
        event == [id |-> eid, status |-> status, resource_id |-> r.id,
                  occurred_at |-> s.d, incident_id |-> inc]
        attached == IF inc = 0 THEN s.incidents
                    ELSE [s.incidents EXCEPT
                            ![inc].event_ids = Append(@, eid),
                            ![inc].end = IF status = "up" THEN s.d ELSE @]
        still == IF inc # 0 /\ status = "up"
                 THEN [s.last_incidents EXCEPT ![r.name] = 0]
                 ELSE s.last_incidents
        incident == [id |-> Len(attached) + 1, name |-> r.name,
                     event_ids |-> <<>>, start |-> s.d, end |-> s.d]
    IN  [i |-> s.i + 1, d |-> s.d + 1,
         events |-> Append(s.events, event),
         statuses |-> IF ~flip THEN s.statuses
                      ELSE [s.statuses EXCEPT ![r.name] = "down"],
         incidents |-> IF flip THEN Append(attached, incident) ELSE attached,
         last_incidents |-> IF flip
                            THEN [still EXCEPT ![r.name] = Len(attached) + 1]
                            ELSE still]

\* one pass of the loop of _init_state (demo_adapter.py:107-151; the loop of
\* state.py:30-70 is the same) with resource r drawn and flip telling
\* whether random.random() > 0.9.  The clock advances by at least a minute
\* each pass; the model counts passes.  An incident's resource_ids, three
\* ids drawn at random, are read nowhere in the loop and left out.
init_state_step(s, r, flip) ==
    LET status == s.statuses[r.name]
        eid == Len(s.events) + 1
        inc == s.last_incidents[r.name]
        event == [id |-> eid, status |-> status, resource_id |-> r.id,
                  occurred_at |-> s.d, incident_id |-> inc]
        attached == IF inc = 0 THEN s.incidents
                    ELSE [s.incidents EXCEPT
                            ![inc].event_ids = Append(@, eid),
                            ![inc].end = IF status = "up" THEN s.d ELSE @]
        still == IF inc # 0 /\ status = "up"
                 THEN [s.last_incidents EXCEPT ![r.name] = 0]
                 ELSE s.last_incidents
        opens == flip /\ status # "down"
        incident == [id |-> Len(attached) + 1, name |-> r.name,
                     event_ids |-> <<>>, start |-> s.d, end |-> s.d]
    IN  [i |-> s.i + 1, d |-> s.d + 1,
         events |-> Append(s.events, event),
         statuses |-> IF ~flip THEN s.statuses
                      ELSE [s.statuses EXCEPT
                              ![r.name] = IF status = "down" THEN "up" ELSE "down"],
         incidents |-> IF opens THEN Append(attached, incident) ELSE attached,
         last_incidents |-> IF opens
                            THEN [still EXCEPT ![r.name] = Len(attached) + 1]
                            ELSE still]

InitSim ==
    /\ environ = EmptyDict
    /\ call = IdleCall
    /\ ret = NoRet
    /\ routers = EmptyDict
    /\ instances = 0
    /\ tasks = <<>>
    /\ dispatch = <<>>
    /\ seen = <<>>
    /\ reqs = <<>>
    /\ startup = NotStarted
    /\ stored = NotStored
    /\ replays = <<>>
    /\ sim = NotSimulated

\* the loop runs once more
Generate(r, flip) ==
    /\ sim.i < MaxSteps
    /\ sim' = init_state_step(sim, r, flip)
    /\ UNCHANGED <<environ, call, ret, routers, instances, tasks, dispatch, seen,
                   reqs, startup, stored, replays>>

NextSim == \E r \in SimResources, flip \in BOOLEAN : Generate(r, flip)

SpecSim == InitSim /\ [][NextSim]_vars

-----------------------------------------------------------------------------
(* Startup: main.py imports the router modules, and each module constructs *)
(* its IriRouter, whose __init__ resolves the adapter                      *)

MaxDirect == 1

\* the sub-domains, in the order main.py imports their router modules
Subdomains == <<"status", "account", "compute", "filesystem", "task">>

SubdomainNames == {Subdomains[i] : i \in DOMAIN Subdomains}

\* f"IRI_API_ADAPTER_{router_name}"
AdapterVar(n) == "IRI_API_ADAPTER_" \o n

\* os.environ for a choice of adapter per sub-domain and a value of
\* IRI_SHOW_MISSING_ROUTES ("<unset>": the variable is not in the environment)
MakeEnv(cfg, show) ==
    LET keys == {AdapterVar(n) : n \in {m \in SubdomainNames : cfg[m] # "<unset>"}}
                    \cup (IF show = "<unset>" THEN {}
                          ELSE {"IRI_SHOW_MISSING_ROUTES"})
    IN  [k \in keys |->
            IF k = "IRI_SHOW_MISSING_ROUTES" THEN show
            ELSE cfg[CHOOSE n \in SubdomainNames : AdapterVar(n) = k]]

ShowSettings == {"<unset>", "true", "1", "on", "yes", "false", "TRUE"}

\* what one adapter variable may name besides a conforming site adapter: the
\* reference backend, an adapter of other contracts, one with an operation
\* left abstract, a class of no contract, a module that does not exist
AdapterSettings ==
    {"app.demo_adapter.DemoAdapter", "facility.FsAdapter", "facility.Partial",
     "facility.Other", "facility.Missing"}

\* every sub-domain unconfigured or on the site adapter, and at most one
\* sub-domain on one of the AdapterSettings
StartupEnvirons ==
    { MakeEnv([base EXCEPT ![n] = c], show) :
        base \in [SubdomainNames -> {"<unset>", "facility.Site"}],
        n \in SubdomainNames,
        c \in AdapterSettings \cup {"<unset>", "facility.Site"},
        show \in ShowSettings }

InitStartup ==
    /\ environ \in StartupEnvirons
    /\ call = IdleCall
    /\ ret = NoRet
    /\ routers = EmptyDict
    /\ instances = 0
    /\ tasks = <<>>
    /\ dispatch = <<>>
    /\ seen = <<>>
    /\ reqs = <<>>
    /\ startup = NotStarted
    /\ stored = NotStored
    /\ replays = <<>>
    /\ sim = NotSimulated

\* main.py imports the next router module: `router = IriRouter(contract,
\* prefix=...)` runs create_adapter; an exception ends the import, and with
\* it the start of the process
ImportRouter ==
    /\ startup.error = ""
    /\ startup.imported < Len(Subdomains)
    /\ LET n == Subdomains[startup.imported + 1]
           made == create_adapter(NewRouter(<<n>>), n, environ, instances + 1)
       IN  IF made.ok
           THEN /\ routers' = [k \in DOMAIN routers \cup {n} |->
                                  IF k = n THEN made.self ELSE routers[k]]
                /\ instances' = IF made.self.adapter = None THEN instances
                                ELSE instances + 1
                /\ startup' = [startup EXCEPT !.imported = @ + 1]
           ELSE /\ startup' = [startup EXCEPT !.error = made.msg]
                /\ UNCHANGED <<routers, instances>>
    /\ UNCHANGED <<environ, call, ret, tasks, dispatch, seen, reqs, stored, replays, sim>>

\* the routes a client calls directly: get_resources of the status router
\* has no dependency, the routes of compute and filesystem depend on
\* router.current_user
DirectRoutes ==
    { [subdomain |-> "status", guarded |-> FALSE],
      [subdomain |-> "compute", guarded |-> TRUE],
      [subdomain |-> "filesystem", guarded |-> TRUE] }

\* a request sent straight to a route of a sub-domain, in the schema or not:
\* the dependency, then the handler's `await router.adapter.<operation>(...)`;
\* an AttributeError there reaches global_exception_handler
Direct(route) ==
    /\ startup.error = ""
    /\ startup.imported = Len(Subdomains)
    /\ Len(reqs) < MaxDirect
    /\ LET router == routers[route.subdomain]
           q == NewRequest(route.subdomain, "Bearer 12345", NoState,
                           Ok(Str("gtorok")))
           g == IF route.guarded THEN current_user(router, q, q.api_key)
                ELSE [ok |-> TRUE, response |-> NoResponse, state |-> NoState]
           served == g.ok /\ router.adapter.t = "adapter"
       IN  reqs' = Append(reqs,
                [pc |-> "done", route |-> route, state |-> g.state,
                 ops |-> IF served THEN 1 ELSE 0,
                 by |-> IF served THEN router.adapter.cls ELSE "",
                 response |-> IF ~g.ok THEN g.response
                              ELSE IF served THEN OkResponse
                              ELSE InternalError])
    /\ UNCHANGED <<environ, call, ret, routers, instances, tasks, dispatch, seen,
                   startup, stored, replays, sim>>

NextStartup ==
    \/ ImportRouter
    \/ \E route \in DirectRoutes : Direct(route)

SpecStartup == InitStartup /\ [][NextStartup]_vars

-----------------------------------------------------------------------------
(* Submission: a TaskCommand is built, its args canonicalized, and the     *)
(* dispatcher rebuilds the request model from them                         *)

\* the commands the routes of filesystem/ontask.py submit
AsyncCommands ==
    {"ls", "head", "view", "tail", "checksum", "rm", "compress", "extract",
     "mv", "cp"}

\* the keys of the args each of those routes puts in its TaskCommand
RouteKeys(command) ==
    CASE command = "ls" ->
            {"path", "show_hidden", "numeric_uid", "recursive", "dereference"}
      [] command = "head" -> {"path", "file_bytes", "lines", "skip_trailing"}
      [] command = "view" -> {"path", "size", "offset"}
      [] command = "tail" -> {"path", "file_bytes", "lines", "skip_heading"}
      [] command \in {"checksum", "rm"} -> {"path"}
      [] OTHER -> {"request_model"}

\* how a client spells the fields of a request body: by field name, by
\* camelCase alias, by snake_case alias
Spellings == {"name", "camel", "snake"}

Spelled(f, style) ==
    CASE style = "camel" -> IF f = "path" THEN "sourcePath" ELSE camelize_key(f)
      [] style = "snake" -> IF f = "path" THEN "source_path" ELSE f
      [] OTHER -> f

Paths == {Str("/home/user/dir"), Str("/a")}

\* a value for each field of a request body
Value(f, path) ==
    CASE f = "path" -> path
      [] f \in {"parent", "dereference"} -> Bool(TRUE)
      [] f = "compression" -> Str("none")
      [] f = "mode" -> Str("777")
      [] OTHER -> Str("/home/user/" \o f)

\* a request body naming the fields fs in one spelling
Body(style, fs, path) ==
    [k \in {Spelled(f, style) : f \in fs} |->
        Value(CHOOSE f \in fs : Spelled(f, style) = k, path)]

\* the bodies of a command: its required fields or all its fields
Bodies(command) ==
    { Body(style, fs, path) :
        style \in Spellings,
        fs \in {RequiredFields(command), Fields(command) \cup {"path"}},
        path \in Paths }

\* the bodies that pass validation, the ones FastAPI hands to a route as a
\* request model
ValidBodies(command) ==
    { b \in Bodies(command) : model_validate(command, b).ok }

\* args carrying a request model, as a dict or as the instance made of it
RequestArgs(command) ==
    { [k \in {"request_model"} |-> b] : b \in Bodies(command) }
        \cup { [k \in {"request_model"} |-> model_validate(command, b).v] :
                    b \in ValidBodies(command) }

\* args with entries besides the request model, one of them under a
\* camelCase key; args without a request model; args that are no dict
MixedArgs(command) ==
    { [k \in {"request_model", "sourcePath", "path"} |->
          IF k = "request_model" THEN a["request_model"] ELSE Str("/" \o k)] :
        a \in RequestArgs(command) }
    \cup { [k \in {"sourcePath"} |-> Str("/a")], Str("/a") }

\* the args a route of ontask.py builds from its query parameters, or from
\* the request model FastAPI made of the body
RouteArgs(command, path, body) ==
    IF command \in RequestModelCommands
    THEN [k \in {"request_model"} |-> model_validate(command, body).v]
    ELSE [k \in RouteKeys(command) |-> IF k = "path" THEN path ELSE None]

\* the TaskCommand constructions of the model: by the async routes, and with
\* args given directly (a request model in any spelling, no args at all)
Submissions ==
    UNION { { [resource |-> "cfs", user |-> "gtorok", router |-> "filesystem",
               command |-> c, args |-> RouteArgs(c, p, b), op |-> Ok(None),
               route |-> TRUE] :
                  p \in Paths, b \in ValidBodies(c) } :
            c \in AsyncCommands }
    \cup
    UNION { { [resource |-> "cfs", user |-> "gtorok", router |-> "filesystem",
               command |-> c, args |-> a, op |-> Ok(None), route |-> FALSE] :
                  a \in RequestArgs(c) \cup {None} \cup MixedArgs(c) } :
            c \in RequestModelCommands }

InitSubmit ==
    /\ environ = ConfiguredEnv
    /\ call \in Submissions
    /\ ret = NoRet
    /\ routers = EmptyDict
    /\ instances = 0
    /\ tasks = <<>>
    /\ dispatch = <<>>
    /\ seen = <<>>
    /\ reqs = <<>>
    /\ startup = NotStarted
    /\ stored = NotStored
    /\ replays = <<>>
    /\ sim = NotSimulated

\* TaskCommand(router=..., command=..., args=...): the validator runs on
\* the caller's mapping (stored.given keeps what that mapping was)
BuildCommand ==
    /\ ~stored.built
    /\ stored' = [stored EXCEPT !.built = TRUE, !.given = call.args,
                                !.args = normalize_args(call.args)]
    /\ call' = [call EXCEPT !.args = args_after_normalize(call.args)]
    /\ UNCHANGED <<environ, ret, routers, instances, tasks, dispatch, seen,
                   reqs, startup, replays, sim>>

\* the stored command is validated again: the validator runs on its args
Revalidate ==
    /\ stored.built
    /\ ~stored.twice
    /\ stored' = [stored EXCEPT !.twice = TRUE, !.again = normalize_args(stored.args)]
    /\ UNCHANGED <<environ, call, ret, routers, instances, tasks, dispatch, seen,
                   reqs, startup, replays, sim>>

\* the dispatcher rebuilds the request model from the stored args
Reconstruct ==
    /\ stored.built
    /\ ~stored.rebuilt
    /\ call.command \in RequestModelCommands
    /\ IsDict(stored.args)
    /\ "request_model" \in DOMAIN stored.args
    /\ stored' = [stored EXCEPT
                    !.rebuilt = TRUE,
                    !.model = model_validate(call.command,
                                             stored.args["request_model"])]
    /\ UNCHANGED <<environ, call, ret, routers, instances, tasks, dispatch, seen,
                   reqs, startup, replays, sim>>

NextSubmit == BuildCommand \/ Revalidate \/ Reconstruct

SpecSubmit == InitSubmit /\ [][NextSubmit]_vars

-----------------------------------------------------------------------------
(* The task-submitting routes of filesystem/ontask.py *)

MaxAsync == 2

\* a Python int
PyInt(n) == [t |-> "int", v |-> n]

\* the limit configured in the environment of the second process
LimitSetting == 4

\* the default of OPS_SIZE_LIMIT: 5 * 1024 * 1024
DefaultSizeLimit == 5242880

\* ontask.to_int(name, default_value): os.environ.get(name) or default_value;
\* the value of a variable that is set comes back as the str it is
to_int(env, name, default_value) ==
    IF name \in DOMAIN env /\ env[name] # "" THEN Str(env[name])
    ELSE default_value

\* OPS_SIZE_LIMIT = to_int("OPS_SIZE_LIMIT", 5 * 1024 * 1024)
OPS_SIZE_LIMIT(env) == to_int(env, "OPS_SIZE_LIMIT", PyInt(DefaultSizeLimit))

\* _user_resource without its second check
_user_resource_any_resource(user, resource) ==
    IF ~Truthy(user)
    THEN [ok |-> FALSE, lookups |-> 1,
          response |-> ErrorResponse(404, "User not found")]
    ELSE [ok |-> TRUE, lookups |-> 2, user |-> user, resource |-> resource]

\* filesystem._user_resource(resource_id, request), given what get_user and
\* get_resource return: the resource is looked up only once the user is found
_user_resource(user, resource) ==
    IF ~Truthy(user)
    THEN [ok |-> FALSE, lookups |-> 1,
          response |-> ErrorResponse(404, "User not found")]
    ELSE IF ~Truthy(resource)
    THEN [ok |-> FALSE, lookups |-> 2,
          response |-> ErrorResponse(404, "Resource not found")]
    ELSE [ok |-> TRUE, lookups |-> 2, user |-> user, resource |-> resource]

\* get_view's checks of offset and size; comparing an int with a str raises
\* TypeError, which global_exception_handler answers with 500 (the details
\* are the source's, less the backquotes around the parameter's name)
view_checks(size, offset, limit) ==
    IF offset.v < 0
    THEN ErrorResponse(400, "offset value must be an integer value equal or greater than 0")
    ELSE IF size.t # "int" THEN InternalError
    ELSE IF size.v <= 0
    THEN ErrorResponse(400, "size value must be an integer value greater than 0")
    ELSE IF limit.t # "int" THEN InternalError
    ELSE IF size.v > limit.v
    THEN ErrorResponse(400, "size value must be less than " \o ToString(limit.v)
                            \o " bytes")
    ELSE OkResponse

\* the query parameters of a view request: size (None when the client sends
\* none, so the default applies) and offset
Sizes == {None, PyInt(0), PyInt(1), PyInt(LimitSetting + 1), PyInt(DefaultSizeLimit + 1)}
Offsets == {PyInt(0 - 1), PyInt(0)}

\* the bodies the clients of this model send to the routes that take one
AsyncBody(command) ==
    Body("camel", RequiredFields(command), Str("/a"))

\* the args of the TaskCommand a route builds
AsyncArgs(command, size, offset) ==
    IF command = "view"
    THEN [k \in RouteKeys("view") |->
            CASE k = "size" -> size [] k = "offset" -> offset [] OTHER -> Str("/a")]
    ELSE RouteArgs(command, Str("/a"), AsyncBody(command))

\* what a task-submitting route does with a request that passed the gate:
\* the two lookups, get_view's checks, then the TaskCommand and put_task
async_route(command, user, resource, size, offset, env) ==
    LET ur == _user_resource(user, resource)
        given == IF size = None THEN OPS_SIZE_LIMIT(env) ELSE size
        checked == IF command = "view"
                   THEN view_checks(given, offset, OPS_SIZE_LIMIT(env))
                   ELSE OkResponse
    IN  IF ~ur.ok THEN [response |-> ur.response, lookups |-> ur.lookups,
                        submits |-> FALSE, task |-> None]
        ELSE IF checked # OkResponse
        THEN [response |-> checked, lookups |-> ur.lookups,
              submits |-> FALSE, task |-> None]
        ELSE [response |-> OkResponse, lookups |-> ur.lookups, submits |-> TRUE,
              task |-> NewTask(ur.user, ur.resource,
                               [router |-> "filesystem", command |-> command,
                                args |-> normalize_args(
                                           AsyncArgs(command, given, offset))])]

\* the processes: OPS_SIZE_LIMIT unset, and set
AsyncEnvirons ==
    { ConfiguredEnv,
      [k \in DOMAIN ConfiguredEnv \cup {"OPS_SIZE_LIMIT"} |->
          IF k = "OPS_SIZE_LIMIT" THEN ToString(LimitSetting) ELSE ConfiguredEnv[k]] }

InitAsync ==
    /\ environ \in AsyncEnvirons
    /\ call = IdleCall
    /\ ret = NoRet
    /\ routers = EmptyDict
    /\ instances = 0
    /\ tasks = <<>>
    /\ dispatch = <<>>
    /\ seen = <<>>
    /\ reqs = <<>>
    /\ startup = NotStarted
    /\ stored = NotStored
    /\ replays = <<>>
    /\ sim = NotSimulated

\* a request for a task-submitting route is handled; get_user and
\* get_resource return `user` and `resource`
AsyncRoute(command, user, resource, size, offset) ==
    /\ Len(reqs) < MaxAsync
    /\ LET out == async_route(command, user, resource, size, offset, environ)
       IN  /\ reqs' = Append(reqs,
                        [route |-> command, user |-> user, resource |-> resource,
                         size |-> size, offset |-> offset,
                         response |-> out.response, lookups |-> out.lookups,
                         task_id |-> IF out.submits THEN Len(tasks) + 1 ELSE 0])
           /\ tasks' = IF out.submits THEN Append(tasks, out.task) ELSE tasks
           /\ dispatch' = IF out.submits THEN Append(dispatch, Idle) ELSE dispatch
           /\ seen' = IF out.submits THEN Append(seen, <<>>) ELSE seen
    /\ UNCHANGED <<environ, call, ret, routers, instances,
                   startup, stored, replays, sim>>

NextAsync ==
    \E command \in AsyncCommands, user \in {None, Str("gtorok")},
       resource \in {None, Str("cfs")} :
        IF command = "view"
        THEN \E size \in Sizes, offset \in Offsets :
                AsyncRoute(command, user, resource, size, offset)
        ELSE AsyncRoute(command, user, resource, None, PyInt(0))

SpecAsync == InitAsync /\ [][NextAsync]_vars

-----------------------------------------------------------------------------
(* The dispatcher's results (checked under SpecOnTask) *)

Called == ret # NoRet

\* args that reach the operation: the request model validates, or the
\* keywords bind the operation's parameters
WellFormed(command, args) ==
    IF command \in RequestModelCommands
    THEN /\ "request_model" \in DOMAIN args
         /\ model_validate(command, args["request_model"]).ok
    ELSE /\ RequiredParams(command) \subseteq DOMAIN args
         /\ DOMAIN args \cap {"resource", "user"} = {}

\* the result text contains "unknown router/command: <router>:<command>"
MentionsUnknown(result, router, command) ==
    \E pre \in {"", "Task was cancelled due to ", "Error: "} :
        result = Str(pre \o "unknown router/command: " \o router \o ":" \o command)

\* C1: for every (router, command) pair that is not in the dispatch table,
\* on_task returns status failed with a result text that contains
\* "unknown router/command: <router>:<command>".
C1_UnknownCommandIsReported ==
    (Called /\ ~InDispatchTable(call.router, call.command)) =>
        /\ ret.status = "failed"
        /\ MentionsUnknown(ret.result, call.router, call.command)

\* C2: for every command in the dispatch table, when the adapter operation
\* raises, on_task returns status failed with the exception's message as the
\* result.
C2_OperationErrorIsTheResult ==
    (/\ Called
     /\ InDispatchTable(call.router, call.command)
     /\ WellFormed(call.command, call.args)
     /\ ~call.op.ok) =>
        /\ ret.status = "failed"
        /\ ret.result \in {Str(call.op.msg), Str("Error: " \o call.op.msg)}

\* C3: for every command in the dispatch table, when the adapter operation
\* returns, whatever it returns, on_task returns status completed, and a
\* response object is the result as its JSON text.
C3_ReturnValueIsTheResult ==
    (/\ Called
     /\ InDispatchTable(call.router, call.command)
     /\ WellFormed(call.command, call.args)
     /\ call.op.ok) =>
        /\ ret.status = "completed"
        /\ call.op.v.t = "model" => ret.result = Str(call.op.v.json)

-----------------------------------------------------------------------------
(* The task lifecycle (checked under Spec) *)

Rank(status) ==
    CASE status = "pending" -> 0
      [] status = "active" -> 1
      [] OTHER -> 2

\* C4: the statuses successive polls of one task return never go down in
\* the order pending < active < {completed, failed, canceled}.
C4_PollsAreMonotonic ==
    \A id \in DOMAIN seen : \A i, j \in DOMAIN seen[id] :
        i < j => Rank(seen[id][i]) <= Rank(seen[id][j])

\* some task was seen active and then in a terminal state
C4_Witness ==
    \E id \in DOMAIN seen :
        /\ Len(seen[id]) >= 2
        /\ seen[id][1] = "active"
        /\ seen[id][2] \in Terminal

AllowedTransitions ==
    { <<"pending", "active">>, <<"active", "completed">>, <<"active", "failed">>,
      <<"pending", "canceled">>, <<"active", "canceled">> }

\* C5: the only status changes a task ever makes are pending -> active,
\* active -> completed, active -> failed, pending -> canceled and
\* active -> canceled.
C5_OnlyLifecycleTransitions ==
    [][\A id \in DOMAIN tasks :
          tasks'[id].status # tasks[id].status =>
              <<tasks[id].status, tasks'[id].status>> \in AllowedTransitions]_vars

\* a task whose dispatch outcome was delivered and taken, and one canceled
\* before the worker took it
C5_Witness ==
    /\ \E id \in DOMAIN tasks :
          tasks[id].status = "failed" /\ dispatch[id].pc = "done"
    /\ \E id \in DOMAIN tasks :
          tasks[id].status = "canceled" /\ dispatch[id].pc = "queued"

\* C6: once a task is completed, failed or canceled, neither its status nor
\* its result changes again.
C6_TerminalIsFinal ==
    [][\A id \in DOMAIN tasks :
          tasks[id].status \in Terminal =>
              /\ tasks'[id].status = tasks[id].status
              /\ tasks'[id].result = tasks[id].result]_vars

\* a task read twice in the terminal state its dispatch gave it
C6_Witness ==
    \E id \in DOMAIN tasks :
        /\ tasks[id].status = "failed"
        /\ seen[id] = <<"failed", "failed">>
        /\ tasks[id].result = dispatch[id].outcome.result

\* C7: a dispatcher outcome that arrives after the task was canceled does
\* not change the task: it stays canceled, with the result it had.
C7_OutcomeAfterCancelIsDropped ==
    [][\A id \in DOMAIN tasks :
          (/\ tasks[id].status = "canceled"
           /\ dispatch[id].pc = "ran"
           /\ dispatch'[id].pc = "done") =>
              tasks'[id] = tasks[id]]_vars

\* a task canceled while active whose outcome has since been delivered
C7_Witness ==
    \E id \in DOMAIN tasks :
        /\ tasks[id].status = "canceled"
        /\ tasks[id].result = None
        /\ dispatch[id].pc = "done"
        /\ dispatch[id].outcome.status \in {"completed", "failed"}

\* C10: every task dispatch for a sub-domain in the dispatch table runs on
\* the one adapter instance bound to that sub-domain's router when it was
\* constructed, and no further adapter object is ever created.
C10_DispatchUsesTheBoundAdapter ==
    /\ instances = 1
    /\ \A id \in DOMAIN tasks :
          (/\ dispatch[id].pc \in {"ran", "done"}
           /\ InDispatchTable(tasks[id].command.router, tasks[id].command.command)) =>
              dispatch[id].outcome.adapter = routers[tasks[id].command.router].adapter

-----------------------------------------------------------------------------
(* The authentication gate (checked under SpecGate) *)

\* the request got as far as get_current_user, which returned no identity
ResolvedNoIdentity(q) ==
    /\ q.pc # "gate"
    /\ resolve_identity(IF q.route = "projects" THEN AppStateAdapter
                        ELSE routers["filesystem"].adapter, q,
                        q.route # "projects") \in {Ok(None), Ok(Str(""))}

\* identity resolution raised for the request
ResolutionRaised(q) ==
    /\ q.pc # "gate"
    /\ ~resolve_identity(IF q.route = "projects" THEN AppStateAdapter
                         ELSE routers["filesystem"].adapter, q,
                         q.route # "projects").ok

Unauthorized == ErrorResponse(403, "Unauthorized access")

\* C8: when identity resolution returns None or an empty value, the request
\* ends with the Unauthorized response, the handler never runs: no adapter
\* operation is invoked, no task is created, and nothing is written to the
\* request state.
C8_NoIdentityIsRejected ==
    \A i \in DOMAIN reqs :
        ResolvedNoIdentity(reqs[i]) =>
            /\ reqs[i].pc = "done"
            /\ reqs[i].response = Unauthorized
            /\ reqs[i].ops = 0
            /\ reqs[i].task_id = 0
            /\ reqs[i].state = NoState
            /\ \A t \in DOMAIN tasks : \E j \in DOMAIN reqs : j # i /\ reqs[j].task_id = t

\* a request rejected for an empty identity next to one that submitted a task
C8_Witness ==
    \E i, j \in DOMAIN reqs :
        /\ reqs[i].resolve = Ok(Str(""))
        /\ ResolvedNoIdentity(reqs[i])
        /\ reqs[i].route = "ls_async"
        /\ reqs[j].task_id # 0

\* C9: when identity resolution raises, the request gets exactly the
\* response a request whose resolution returned no identity gets, and is
\* never let through.
C9_ResolutionErrorIsUnauthorized ==
    \A i, j \in DOMAIN reqs :
        (ResolutionRaised(reqs[i]) /\ ResolvedNoIdentity(reqs[j])) =>
            /\ reqs[i].response = reqs[j].response
            /\ reqs[i].pc = "done"
            /\ reqs[i].state = NoState
            /\ reqs[i].ops = 0
            /\ reqs[i].task_id = 0

\* a request whose get_current_user raised next to one where it returned None
C9_Witness ==
    \E i, j \in DOMAIN reqs :
        /\ reqs[i].resolve = Raise("Signature has expired")
        /\ routers["filesystem"].adapter # None
        /\ reqs[i].route # "projects"
        /\ ResolutionRaised(reqs[i])
        /\ reqs[j].resolve = Ok(None)
        /\ ResolvedNoIdentity(reqs[j])

-----------------------------------------------------------------------------
(* The adapter registry and the visibility of routes (checked under        *)
(* SpecStartup)                                                            *)

\* the import of sub-domain n's router module has run, to its end or to an
\* exception
Attempted(n) ==
    \E i \in DOMAIN Subdomains :
        /\ Subdomains[i] = n
        /\ \/ startup.imported >= i
           \/ startup.imported = i - 1 /\ startup.error # ""

\* the import of sub-domain n's router module ended in an exception
FailedAt(n) ==
    /\ startup.error # ""
    /\ Subdomains[startup.imported + 1] = n

\* the adapter variable of n names something that is not an implementation
\* of n's contract, or one that leaves a contract operation abstract
NonConforming(n) ==
    /\ AdapterVar(n) \in DOMAIN environ
    /\ LET c == environ[AdapterVar(n)]
       IN  \/ c \notin DOMAIN Classes
           \/ n \notin Classes[c].bases
           \/ Classes[c].abstract

\* an adapter of class c is bound to the router of n
Bound(n, c) ==
    /\ n \in DOMAIN routers
    /\ routers[n].adapter.t = "adapter"
    /\ routers[n].adapter.cls = c

ShowFlagEnabled ==
    /\ "IRI_SHOW_MISSING_ROUTES" \in DOMAIN environ
    /\ environ["IRI_SHOW_MISSING_ROUTES"] \in {"true", "1", "on", "yes"}

C12_HiddenRouteIsServed ==
    \A i \in DOMAIN reqs :
        routers[reqs[i].route.subdomain].include_in_schema = FALSE =>
            /\ reqs[i].response = OkResponse
            /\ reqs[i].ops = 1
            /\ reqs[i].by = "app.demo_adapter.DemoAdapter"

C14_FallbackIsTheReferenceBackend ==
    \A n \in SubdomainNames :
        Attempted(n) =>
            /\ (AdapterVar(n) \notin DOMAIN environ /\ ShowFlagEnabled) =>
                    Bound(n, "app.demo_adapter.DemoAdapter")
            /\ (AdapterVar(n) \in DOMAIN environ /\ n \in DOMAIN routers) =>
                    Bound(n, environ[AdapterVar(n)])

-----------------------------------------------------------------------------
(* Canonicalization of TaskCommand args (checked under SpecSubmit)        *)

\* the field a key of a request body names
FieldOf(k) ==
    CHOOSE f \in {"path", "mode", "owner", "group", "parent", "link_path",
                  "target_path", "match_pattern", "dereference", "compression"} :
        k \in FieldKeys(f)

\* a request model, dict or instance, as its set of (field, value) pairs
FieldValues(rm) ==
    IF IsDict(rm) THEN {<<FieldOf(k), rm[k]>> : k \in DOMAIN rm}
    ELSE {<<f, rm.fields[f]>> : f \in DOMAIN rm.fields}

HasRequestModel(args) == IsDict(args) /\ "request_model" \in DOMAIN args

\* two args mappings whose request models name the same fields with the
\* same values, in whatever spelling
SameUpToSpelling(a, b) ==
    /\ HasRequestModel(a)
    /\ HasRequestModel(b)
    /\ FieldValues(a["request_model"]) = FieldValues(b["request_model"])

\* C15: canonicalizing args that are already canonical changes nothing:
\* normalize_args(normalize_args(m)) = normalize_args(m), whether m has no
\* request_model, a request model instance or a dict.
C15_CanonicalizationIsIdempotent ==
    stored.twice => stored.again = stored.args

\* a dict spelled in camelCase, canonicalized twice
C15_Witness ==
    /\ stored.twice
    /\ HasRequestModel(call.args)
    /\ IsDict(call.args["request_model"])
    /\ "targetPath" \in DOMAIN call.args["request_model"]
    /\ "target_path" \in DOMAIN stored.again["request_model"]

\* C16: any submission whose request model differs from this one only in
\* the spelling of its field names (alias or field name, dict or instance)
\* canonicalizes to the same stored args.
C16_SpellingDoesNotMatter ==
    stored.built =>
        \A a \in RequestArgs(call.command) :
            SameUpToSpelling(call.args, a) => normalize_args(a) = stored.args

\* C17: the keys of the args an async filesystem route submits are exactly
\* the keyword parameters of the adapter operation of that name, resource
\* and user aside.
C17_RouteArgsMatchTheOperation ==
    (stored.built /\ call.route) =>
        DOMAIN stored.args = RequiredParams(call.command)

\* the request model a submission stands for
Submitted ==
    IF IsDict(call.args["request_model"])
    THEN model_validate(call.command, call.args["request_model"])
    ELSE Ok(call.args["request_model"])

-----------------------------------------------------------------------------
(* The dispatch table (checked under SpecOnTask) and repeated dispatch     *)
(* (checked under SpecReplay)                                              *)

\* the operations the dispatcher consumes: (router, command) pairs
NamedOperations ==
    ({"filesystem"} \X {"chmod", "chown", "ls", "head", "tail", "view",
                        "checksum", "stat", "rm", "mkdir", "symlink",
                        "download", "upload", "compress", "extract", "mv", "cp"})
    \cup ({"compute"} \X {"submit_job", "update_job", "get_job", "get_jobs",
                          "cancel_job"})

\* C18: every named filesystem and compute operation is in the dispatch
\* table, and dispatching it never gives the "unknown router/command"
\* failure.
C18_NamedOperationsAreDispatched ==
    (Called /\ <<call.router, call.command>> \in NamedOperations) =>
        /\ InDispatchTable(call.router, call.command)
        /\ ~MentionsUnknown(ret.result, call.router, call.command)

-----------------------------------------------------------------------------
(* The task-submitting routes (checked under SpecAsync) *)

\* the requests that led to put_task
Submitting == { i \in DOMAIN reqs : reqs[i].task_id # 0 }

\* C21: on every task-submitting route, a request whose user lookup or
\* resource lookup returns nothing is answered with 404 and never reaches
\* put_task: the store holds exactly the tasks of the requests that found both.
C21_MissingUserOrResourceSubmitsNothing ==
    /\ \A i \in DOMAIN reqs :
          (~Truthy(reqs[i].user) \/ ~Truthy(reqs[i].resource)) =>
              /\ reqs[i].response.status_code = 404
              /\ reqs[i].task_id = 0
    /\ Len(tasks) = Cardinality(Submitting)
    /\ \A i \in Submitting :
          /\ tasks[reqs[i].task_id].command.command = reqs[i].route
          /\ tasks[reqs[i].task_id].user = reqs[i].user
          /\ tasks[reqs[i].task_id].resource = reqs[i].resource

\* a request whose resource is unknown is turned away after both lookups,
\* and another one has submitted its task
C21_Witness ==
    /\ \E i \in DOMAIN reqs :
          /\ reqs[i].route # "view"
          /\ Truthy(reqs[i].user)
          /\ ~Truthy(reqs[i].resource)
          /\ reqs[i].lookups = 2
          /\ reqs[i].response = ErrorResponse(404, "Resource not found")
    /\ \E j \in Submitting : reqs[j].route # "view"
    /\ Len(tasks) = 1

\* the limit a process is configured with, as a number
ConfiguredLimit ==
    IF "OPS_SIZE_LIMIT" \in DOMAIN environ THEN LimitSetting ELSE DefaultSizeLimit

\* the view requests that found their user and resource
Viewing ==
    { i \in DOMAIN reqs : /\ reqs[i].route = "view"
                          /\ Truthy(reqs[i].user)
                          /\ Truthy(reqs[i].resource) }

\* the size a view request asks for: the limit when it names none
AskedSize(i) == IF reqs[i].size = None THEN ConfiguredLimit ELSE reqs[i].size.v

\* whether a view request asks for a window the route must refuse
BadWindow(i) ==
    \/ reqs[i].offset.v < 0
    \/ AskedSize(i) <= 0
    \/ AskedSize(i) > ConfiguredLimit

\* C28: the asynchronous view route answers a request with offset < 0,
\* size <= 0 or size > OPS_SIZE_LIMIT with 400 and submits nothing; a view
\* task exists only for a request with offset >= 0 and 0 < size <=
\* OPS_SIZE_LIMIT.
C28_BadViewWindowIsRejectedWith400 ==
    \A i \in Viewing :
        /\ BadWindow(i) => /\ reqs[i].response.status_code = 400
                           /\ reqs[i].task_id = 0
        /\ reqs[i].task_id # 0 => ~BadWindow(i)

-----------------------------------------------------------------------------
(* The dispatcher's progress (checked under SpecLive) *)

\* C22: under fair scheduling of the dispatcher every submitted task
\* eventually is completed, failed or canceled, also when its operation
\* raises and when its command is unknown.
C22_EveryTaskTerminates ==
    \A id \in 1..MaxTasks :
        (id \in DOMAIN tasks) ~>
            (id \in DOMAIN tasks /\ tasks[id].status \in Terminal)

\* the dispatcher has carried a task with an unknown command to failed,
\* while a task of the dispatch table is still pending
C22_Witness ==
    \E id, other \in DOMAIN tasks :
        /\ ~InDispatchTable(tasks[id].command.router, tasks[id].command.command)
        /\ dispatch[id].pc = "done"
        /\ tasks[id].status = "failed"
        /\ InDispatchTable(tasks[other].command.router, tasks[other].command.command)
        /\ tasks[other].status = "pending"

-----------------------------------------------------------------------------
(* The gates, one request at a time (checked under SpecAuth) *)

\* the adapter a request's gate asks: the router's, or the application's
GateAdapter(q) ==
    IF q.route = "projects" THEN q.app ELSE routers["filesystem"].adapter

\* what the identity resolution of a request's gate gave
Resolved(q) == resolve_identity(GateAdapter(q), q, q.route # "projects")

StatedAddress(q) ==
    LET present(name) == name \in DOMAIN q.headers /\ q.headers[name].v # ""
    IN  CASE present("HTTP_X_REAL_IP") -> q.headers["HTTP_X_REAL_IP"]
          [] ~present("HTTP_X_REAL_IP") /\ present("x-real-ip") ->
                q.headers["x-real-ip"]
          [] OTHER -> q.client

\* C27: the address handed to identity resolution is the HTTP_X_REAL_IP
\* header when present and not empty, else the x-real-ip header when
\* present and not empty, and the socket's address only when neither is.
C27_ProxyHeadersComeBeforeTheSocket ==
    \A i \in DOMAIN reqs :
        (reqs[i].pc # "gate" /\ reqs[i].asked.called) =>
            reqs[i].asked.args = <<Str(reqs[i].api_key), StatedAddress(reqs[i])>>

\* a request with an empty HTTP_X_REAL_IP and a set x-real-ip went through
\* the router's gate, which asked with the x-real-ip address
C27_Witness ==
    \E i \in DOMAIN reqs :
        /\ reqs[i].pc = "handler"
        /\ "HTTP_X_REAL_IP" \in DOMAIN reqs[i].headers
        /\ reqs[i].headers["HTTP_X_REAL_IP"] = Str("")
        /\ "x-real-ip" \in DOMAIN reqs[i].headers
        /\ reqs[i].asked.called
        /\ reqs[i].asked.args = <<Str(reqs[i].api_key), Str("10.0.0.7")>>

-----------------------------------------------------------------------------
(* Concurrent requests at the gate (checked under SpecGate) *)

\* what the gate of request q writes when it lets q through
OwnState(q) ==
    [k \in DOMAIN q.state |->
        IF k = "api_key" THEN Str(q.api_key) ELSE q.resolve.v]

\* C24: whatever the interleaving of the requests, request.state is written
\* by the request's own gate only and holds the identity resolved for, and
\* the credential of, that request; the handler submits its task under that
\* identity.  No request sees what the gate resolved for another.
C24_GateWritesOwnRequestOnly ==
    /\ [](\A i \in DOMAIN reqs :
            /\ reqs[i].pc = "gate" => reqs[i].state = NoState
            /\ reqs[i].state # NoState =>
                  /\ reqs[i].resolve.ok
                  /\ reqs[i].state = OwnState(reqs[i])
            /\ reqs[i].task_id # 0 =>
                  Str(tasks[reqs[i].task_id].user) = reqs[i].resolve.v)
    /\ [][\A i \in DOMAIN reqs :
            reqs'[i].state # reqs[i].state =>
                reqs[i].pc = "gate" /\ reqs'[i].pc = "handler"]_vars

\* two requests with different credentials are both past the gate, neither
\* handled yet, each with its own credential in its state
C24_Witness ==
    \E i, j \in DOMAIN reqs :
        /\ reqs[i].api_key # reqs[j].api_key
        /\ reqs[i].pc = "handler"
        /\ reqs[j].pc = "handler"
        /\ reqs[i].state["api_key"] = Str(reqs[i].api_key)
        /\ reqs[j].state["api_key"] = Str(reqs[j].api_key)

-----------------------------------------------------------------------------
(* New tasks (checked under Spec) *)

\* C25: a task is created pending with a null result, and stays so until
\* the dispatcher takes it or a cancellation marks it: polls and the
\* submission of other tasks leave it as it is.
C25_NewTaskIsPendingUntilTaken ==
    /\ [][\A id \in DOMAIN tasks' \ DOMAIN tasks :
            tasks'[id].status = "pending" /\ tasks'[id].result = None]_vars
    /\ [](\A id \in DOMAIN tasks :
            (dispatch[id].pc = "queued" /\ tasks[id].status # "canceled") =>
                tasks[id].status = "pending" /\ tasks[id].result = None)
    /\ [][\A id \in DOMAIN tasks :
            tasks'[id] # tasks[id] =>
                \/ dispatch'[id].pc # dispatch[id].pc
                \/ (tasks'[id].status = "canceled" /\ Cancellable(tasks[id]))]_vars

\* a task read twice while pending, after another task was created and
\* carried to its end
C25_Witness ==
    \E id, other \in DOMAIN tasks :
        /\ id < other
        /\ seen[id] = <<"pending", "pending">>
        /\ tasks[id].status = "pending"
        /\ tasks[id].result = None
        /\ dispatch[id].pc = "queued"
        /\ dispatch[other].pc = "done"

-----------------------------------------------------------------------------
(* What the operation is handed (checked under SpecOnTask) *)

\* C26: every dispatch of a command of the dispatch table hands its
\* operation the resource and the user on_task was called with, and nothing
\* else in their place: the dispatcher builds neither, and args cannot
\* replace them.
C26_OperationReceivesResourceAndUser ==
    /\ (Called /\ ret.received # None) =>
          ret.received = [resource |-> call.resource, user |-> call.user]
    /\ (/\ Called
        /\ InDispatchTable(call.router, call.command)
        /\ WellFormed(call.command, call.args)) =>
          ret.received = [resource |-> call.resource, user |-> call.user]

-----------------------------------------------------------------------------
(* The frame of normalize_args (checked under SpecSubmit) *)

\* C29: normalize_args leaves the mapping it is given as it was, and what
\* it returns has the keys of that mapping with, for every key but
\* request_model, the value given; args that are no dict come back as given.
C29_NormalizeArgsTouchesRequestModelOnly ==
    stored.built =>
        /\ call.args = stored.given
        /\ IsDict(stored.given) =>
              /\ IsDict(stored.args)
              /\ DOMAIN stored.args = DOMAIN stored.given
              /\ \A k \in DOMAIN stored.given \ {"request_model"} :
                    stored.args[k] = stored.given[k]
        /\ ~IsDict(stored.given) => stored.args = stored.given

\* a command was built from args holding a camelCase request model between
\* two other entries: the request model was rewritten, the rest was not
C29_Witness ==
    /\ stored.built
    /\ IsDict(stored.given)
    /\ DOMAIN stored.given = {"request_model", "sourcePath", "path"}
    /\ IsDict(stored.given["request_model"])
    /\ stored.args["request_model"] # stored.given["request_model"]
    /\ stored.args["sourcePath"] = Str("/sourcePath")

-----------------------------------------------------------------------------
(* The generated incidents (checked under SpecSim) *)

\* an incident no event has ended yet: its end is still its start
Open(inc) == inc.end = inc.start

\* the resources of the events attached to an incident
ResourcesOf(inc) ==
    { sim.events[inc.event_ids[n]].resource_id : n \in DOMAIN inc.event_ids }

\* C30: after any number of passes of the generator's loop the events
\* attached to an incident are all of one resource, the resource the
\* incident was opened for, and no resource has two open incidents.
C30_OneResourcePerIncidentOneOpenIncidentPerResource ==
    /\ \A k \in DOMAIN sim.incidents :
          /\ Cardinality(ResourcesOf(sim.incidents[k])) <= 1
          /\ \A id \in ResourcesOf(sim.incidents[k]) :
                \E r \in SimResources :
                    r.id = id /\ r.name = sim.incidents[k].name
    /\ \A e \in DOMAIN sim.events :
          sim.events[e].incident_id # 0 =>
              \E n \in DOMAIN sim.incidents[sim.events[e].incident_id].event_ids :
                  sim.incidents[sim.events[e].incident_id].event_ids[n] = e
    /\ \A r \in SimResources :
          Cardinality({ k \in DOMAIN sim.incidents :
                          /\ sim.incidents[k].name = r.name
                          /\ Open(sim.incidents[k]) }) <= 1

\* a resource's first incident took two events and was ended, its second
\* is open, and another resource has an incident of its own
C30_Witness ==
    \E k, l, m \in DOMAIN sim.incidents :
        /\ k < l
        /\ sim.incidents[k].name = sim.incidents[l].name
        /\ Len(sim.incidents[k].event_ids) = 2
        /\ ~Open(sim.incidents[k])
        /\ Open(sim.incidents[l])
        /\ sim.incidents[m].name # sim.incidents[k].name

====
